---- MODULE Spec2Model ----
(***************************************************************************)
(* A model of the QSPI driver: the STM32 HAL backend                       *)
(* (targets/TARGET_STM/qspi_api.c) and the bus-exclusion protocol of the   *)
(* mbed::QSPI front-end class (drivers/QSPI.h).                            *)
(*                                                                         *)
(* Three specifications share the module:                                 *)
(*   SpecPrepare  qspi_prepare_command applied to every command descriptor *)
(*                of a bounded set;                                        *)
(*   Spec         the HAL entry points qspi_init, qspi_free,               *)
(*                qspi_frequency, qspi_write, qspi_read and                *)
(*                qspi_command_transfer, called in any order with any      *)
(*                outcome of the vendor calls;                             *)
(*   SpecLock     threads running transactions of several QSPI instances   *)
(*                under the class's global mutex.                          *)
(***************************************************************************)
EXTENDS Integers, Sequences, FiniteSets, TLC

VARIABLES
    \* ---- qspi_prepare_command --------------------------------------------
    command,      \* the qspi_command_t handed to qspi_prepare_command
    junk,         \* what the caller's uninitialised st_command local holds
    st_command,   \* the QSPI_CommandTypeDef, before and after the call
    prepared,     \* whether qspi_prepare_command has run on st_command
    \* ---- HAL entry points ------------------------------------------------
    obj,          \* qspi_t: the fields of obj->handle.Init the code writes
    call,         \* the last entry point invoked, with its arguments
    result,       \* what that invocation returned and did
    \* ---- bus exclusion ---------------------------------------------------
    mutex,        \* QSPI::_mutex: how many times each thread holds it
    _owner,       \* QSPI::_owner: the instance the bus is set up for (0: NULL)
    pc,           \* where each thread is in its transaction
    self_,        \* the instance each thread's transaction is called on
    touched       \* threads that accessed _owner without holding the mutex

prepVars == <<command, junk, st_command, prepared>>
halVars  == <<obj, call, result>>
lockVars == <<mutex, _owner, pc, self_, touched>>
vars     == <<command, junk, st_command, prepared, obj, call, result,
              mutex, _owner, pc, self_, touched>>

(***************************************************************************)
(* Bounds of the model.                                                    *)
(***************************************************************************)
MaxSize == 4        \* address.size and alt.size range over 0..MaxSize
MaxLen == 1         \* *length, tx_size and rx_size range over 0..MaxLen
NumThreads == 3     \* threads using the bus
NumInstances == 3   \* QSPI objects sharing the bus
MaxLockDepth == 2   \* how often one thread may hold the recursive mutex

(***************************************************************************)
(* Bit arithmetic on non-negative integers.                                *)
(***************************************************************************)
RECURSIVE Pow2(_)
Pow2(n) == IF n = 0 THEN 1 ELSE 2 * Pow2(n - 1)

Shl(x, n) == x * Pow2(n)

RECURSIVE BitAnd(_, _)
BitAnd(a, b) ==
    IF a = 0 \/ b = 0 THEN 0
    ELSE (a % 2) * (b % 2) + 2 * BitAnd(a \div 2, b \div 2)

(***************************************************************************)
(* Vendor register layout (QUADSPI_CCR): ADSIZE is bits 13:12, ABSIZE is   *)
(* bits 17:16.                                                             *)
(***************************************************************************)
QUADSPI_CCR_ADSIZE_Pos == 12
QUADSPI_CCR_ADSIZE_Msk == Shl(3, QUADSPI_CCR_ADSIZE_Pos)
QUADSPI_CCR_ABSIZE_Pos == 16
QUADSPI_CCR_ABSIZE_Msk == Shl(3, QUADSPI_CCR_ABSIZE_Pos)

(***************************************************************************)
(* qspi_bus_width_t.  QSPI_CFG_BUS_OTHER stands for every value outside    *)
(* the three enumerators, which the switches send to their default branch. *)
(***************************************************************************)
BusWidths == {"QSPI_CFG_BUS_SINGLE", "QSPI_CFG_BUS_DUAL", "QSPI_CFG_BUS_QUAD",
              "QSPI_CFG_BUS_OTHER"}

(***************************************************************************)
(* The vendor's mode constants, one family per phase.  Each is kept as the *)
(* phase it belongs to and the number of lines it selects (0: NONE), so    *)
(* that QSPI_ADDRESS_2_LINES and QSPI_DATA_2_LINES are different values.   *)
(***************************************************************************)
Mode(phase, lines) == [phase |-> phase, lines |-> lines]

QSPI_INSTRUCTION_NONE    == Mode("INSTRUCTION", 0)
QSPI_INSTRUCTION_1_LINE  == Mode("INSTRUCTION", 1)
QSPI_INSTRUCTION_2_LINES == Mode("INSTRUCTION", 2)
QSPI_INSTRUCTION_4_LINES == Mode("INSTRUCTION", 4)
QSPI_ADDRESS_NONE    == Mode("ADDRESS", 0)
QSPI_ADDRESS_1_LINE  == Mode("ADDRESS", 1)
QSPI_ADDRESS_2_LINES == Mode("ADDRESS", 2)
QSPI_ADDRESS_4_LINES == Mode("ADDRESS", 4)
QSPI_ALTERNATE_BYTES_NONE    == Mode("ALTERNATE_BYTES", 0)
QSPI_ALTERNATE_BYTES_1_LINE  == Mode("ALTERNATE_BYTES", 1)
QSPI_ALTERNATE_BYTES_2_LINES == Mode("ALTERNATE_BYTES", 2)
QSPI_ALTERNATE_BYTES_4_LINES == Mode("ALTERNATE_BYTES", 4)
QSPI_DATA_NONE    == Mode("DATA", 0)
QSPI_DATA_1_LINE  == Mode("DATA", 1)
QSPI_DATA_2_LINES == Mode("DATA", 2)
QSPI_DATA_4_LINES == Mode("DATA", 4)

(***************************************************************************)
(* qspi_command_t: the command descriptors the model draws from.           *)
(***************************************************************************)
Sizes == 0..MaxSize
SampleValues == {0, 171}

Commands ==
    [instruction : [bus_width : BusWidths, value : {159}],
     address     : [bus_width : BusWidths, disabled : BOOLEAN,
                    size : Sizes, value : SampleValues],
     alt         : [bus_width : BusWidths, disabled : BOOLEAN,
                    size : Sizes, value : SampleValues],
     dummy_count : {8},
     data        : [bus_width : BusWidths]]

(***************************************************************************)
(* QSPI_CommandTypeDef st_command, declared without an initialiser: every  *)
(* field holds whatever the stack held, g.                                 *)
(***************************************************************************)
Garbage == {0, 43690}

UninitCommand(g) ==
    [InstructionMode |-> Mode("JUNK", g), Instruction |-> g,
     AddressMode |-> Mode("JUNK", g), Address |-> g, AddressSize |-> g,
     AlternateByteMode |-> Mode("JUNK", g), AlternateBytes |-> g,
     AlternateBytesSize |-> g,
     DataMode |-> Mode("JUNK", g), DummyCycles |-> g, NbData |-> g,
     SIOOMode |-> "JUNK", DdrMode |-> "JUNK", DdrHoldHalfCycle |-> "JUNK"]

(***************************************************************************)
(* qspi_prepare_command, one operator per statement group, composed in     *)
(* source order.  Each takes the st_command built so far and returns it    *)
(* with the group's assignments made.                                      *)
(***************************************************************************)
InstructionPhase(cmd, st) ==
    LET mode == CASE cmd.instruction.bus_width = "QSPI_CFG_BUS_SINGLE" -> QSPI_INSTRUCTION_1_LINE
                  [] cmd.instruction.bus_width = "QSPI_CFG_BUS_DUAL"   -> QSPI_INSTRUCTION_2_LINES
                  [] cmd.instruction.bus_width = "QSPI_CFG_BUS_QUAD"   -> QSPI_INSTRUCTION_4_LINES
                  [] OTHER                                             -> QSPI_INSTRUCTION_NONE
    IN  [st EXCEPT !.InstructionMode = mode,
                   !.Instruction = cmd.instruction.value,
                   !.DummyCycles = cmd.dummy_count,
                   !.SIOOMode = "QSPI_SIOO_INST_EVERY_CMD",
                   !.DdrMode = "QSPI_DDR_MODE_DISABLE",
                   !.DdrHoldHalfCycle = "QSPI_DDR_HHC_ANALOG_DELAY"]

\* The address switch with the dual and quad cases exchanged.
AddressBusWidthSwapped(cmd, st) ==
    LET mode == CASE cmd.address.bus_width = "QSPI_CFG_BUS_SINGLE" -> QSPI_ADDRESS_1_LINE
                  [] cmd.address.bus_width = "QSPI_CFG_BUS_DUAL"   -> QSPI_ADDRESS_4_LINES
                  [] cmd.address.bus_width = "QSPI_CFG_BUS_QUAD"   -> QSPI_ADDRESS_2_LINES
                  [] OTHER                                         -> QSPI_ADDRESS_NONE
    IN  [st EXCEPT !.AddressMode = mode]

AddressBusWidth(cmd, st) ==
    LET mode == CASE cmd.address.bus_width = "QSPI_CFG_BUS_SINGLE" -> QSPI_ADDRESS_1_LINE
                  [] cmd.address.bus_width = "QSPI_CFG_BUS_DUAL"   -> QSPI_ADDRESS_2_LINES
                  [] cmd.address.bus_width = "QSPI_CFG_BUS_QUAD"   -> QSPI_ADDRESS_4_LINES
                  [] OTHER                                         -> QSPI_ADDRESS_NONE
    IN  [st EXCEPT !.AddressMode = mode]

\* The address phase without the override of a disabled address: the value
\* and the size are stored whatever address.disabled says.
AddressPhaseIgnoringDisabled(cmd, st) ==
    [st EXCEPT !.Address = cmd.address.value,
               !.AddressSize = BitAnd(Shl(cmd.address.size, QUADSPI_CCR_ADSIZE_Pos),
                                      QUADSPI_CCR_ADSIZE_Msk)]

AddressPhase(cmd, st) ==
    IF cmd.address.disabled = TRUE
    THEN [st EXCEPT !.AddressMode = QSPI_ADDRESS_NONE,
                    !.AddressSize = 0]
    ELSE [st EXCEPT !.Address = cmd.address.value,
                    !.AddressSize = BitAnd(Shl(cmd.address.size, QUADSPI_CCR_ADSIZE_Pos),
                                           QUADSPI_CCR_ADSIZE_Msk)]

AltBusWidth(cmd, st) ==
    LET mode == CASE cmd.alt.bus_width = "QSPI_CFG_BUS_SINGLE" -> QSPI_ALTERNATE_BYTES_1_LINE
                  [] cmd.alt.bus_width = "QSPI_CFG_BUS_DUAL"   -> QSPI_ALTERNATE_BYTES_2_LINES
                  [] cmd.alt.bus_width = "QSPI_CFG_BUS_QUAD"   -> QSPI_ALTERNATE_BYTES_4_LINES
                  [] OTHER                                     -> QSPI_ALTERNATE_BYTES_NONE
    IN  [st EXCEPT !.AlternateByteMode = mode]

\* Line 111 stores the shifted size and line 112 overwrites it with the raw one.
AltPhase(cmd, st) ==
    IF cmd.alt.disabled = TRUE
    THEN [st EXCEPT !.AlternateByteMode = QSPI_ALTERNATE_BYTES_NONE,
                    !.AlternateBytesSize = 0]
    ELSE LET s1 == [st EXCEPT !.AlternateBytes = cmd.alt.value]
             s2 == [s1 EXCEPT !.AlternateBytesSize =
                        BitAnd(Shl(cmd.alt.size, QUADSPI_CCR_ABSIZE_Pos),
                               QUADSPI_CCR_ABSIZE_Msk)]
         IN  [s2 EXCEPT !.AlternateBytesSize = cmd.alt.size]

DataPhase(cmd, st) ==
    LET mode == CASE cmd.data.bus_width = "QSPI_CFG_BUS_SINGLE" -> QSPI_DATA_1_LINE
                  [] cmd.data.bus_width = "QSPI_CFG_BUS_DUAL"   -> QSPI_DATA_2_LINES
                  [] cmd.data.bus_width = "QSPI_CFG_BUS_QUAD"   -> QSPI_DATA_4_LINES
                  [] OTHER                                      -> QSPI_DATA_NONE
    IN  [st EXCEPT !.DataMode = mode, !.NbData = 0]

qspi_prepare_command(cmd, st) ==
    DataPhase(cmd,
      AltPhase(cmd,
        AltBusWidth(cmd,
          AddressPhase(cmd,
            AddressBusWidth(cmd,
              InstructionPhase(cmd, st))))))

(***************************************************************************)
(* SpecPrepare: a caller declares st_command and calls                     *)
(* qspi_prepare_command on a command descriptor, as qspi_write, qspi_read  *)
(* and qspi_command_transfer do.  The initial states hold every command    *)
(* and every stack content; the one action is the call.                    *)
(***************************************************************************)
HalIdle ==
    /\ obj = [ClockPrescaler |-> 0, ClockMode |-> "QSPI_CLOCK_MODE_0",
              Instance |-> "NC"]
    /\ call = [op |-> "none"]
    /\ result = [status |-> "NONE", calls |-> <<>>, prepares |-> 0]

LockIdle ==
    /\ mutex = <<>>
    /\ _owner = 0
    /\ pc = <<>>
    /\ self_ = <<>>
    /\ touched = {}

PrepIdle ==
    /\ command = [op |-> "none"]
    /\ junk = 0
    /\ st_command = [op |-> "none"]
    /\ prepared = FALSE

InitPrepare ==
    /\ command \in Commands
    /\ junk \in Garbage
    /\ st_command = UninitCommand(junk)
    /\ prepared = FALSE
    /\ HalIdle
    /\ LockIdle

PrepareCommand ==
    /\ ~prepared
    /\ st_command' = qspi_prepare_command(command, st_command)
    /\ prepared' = TRUE
    /\ UNCHANGED <<command, junk, halVars, lockVars>>

NextPrepare == PrepareCommand

SpecPrepare == InitPrepare /\ [][NextPrepare]_vars

(***************************************************************************)
(* The vendor calls.  HAL_QSPI_Init, HAL_QSPI_Command, HAL_QSPI_Transmit   *)
(* and HAL_QSPI_Receive block and return a HAL_StatusTypeDef the driver    *)
(* does not control: a call's outcomes are all of HalStatus.  A handler    *)
(* below is the set of runs it can make, one per outcome of the vendor     *)
(* calls it reaches; a run records the calls in order (calls), the         *)
(* qspi_prepare_command conversions (prepares), the qspi_t it leaves (obj) *)
(* and the status it returns.                                              *)
(***************************************************************************)
HalStatus == {"HAL_OK", "HAL_ERROR", "HAL_TIMEOUT"}

VendorCall(fn, ret, nbdata) == [fn |-> fn, ret |-> ret, NbData |-> nbdata]

HAL(fn, nbdata) == {VendorCall(fn, r, nbdata) : r \in HalStatus}

(***************************************************************************)
(* The rest of the environment of an invocation.                           *)
(*   hclk   what HAL_RCC_GetHCLKFreq() returns                             *)
(*   div0   what a division by zero does on this build: it traps, or it    *)
(*          yields some value                                              *)
(***************************************************************************)
HclkValues == {256, 257}
HzValues == {-5, 0, 1, 2, 257, 300}
Div0Outcomes == {[trap |-> TRUE, value |-> 0], [trap |-> FALSE, value |-> 0],
                 [trap |-> FALSE, value |-> 7]}

Envs(hz) ==
    [hclk : HclkValues,
     div0 : IF hz = 0 THEN Div0Outcomes ELSE {[trap |-> FALSE, value |-> 0]}]

\* What pinmap_merge gave for (io0, io1), (io2, io3) and (sclk, ssel).
PinMerges == {<<"QSPI_1", "QSPI_1", "QSPI_1">>, <<"QSPI_1", "QSPI_1", "NC">>,
              <<"QSPI_1", "NC", "QSPI_1">>, <<"NC", "QSPI_1", "QSPI_1">>}
Buffers == {"NULL", "buf"}
Lengths == 0..MaxLen

SampleCommands ==
    [instruction : [bus_width : {"QSPI_CFG_BUS_QUAD"}, value : {159}],
     address     : [bus_width : {"QSPI_CFG_BUS_QUAD"}, disabled : BOOLEAN,
                    size : {3}, value : {171}],
     alt         : [bus_width : {"QSPI_CFG_BUS_OTHER"}, disabled : {TRUE},
                    size : {0}, value : {0}],
     dummy_count : {8},
     data        : [bus_width : {"QSPI_CFG_BUS_QUAD"}]]

Run(status, calls, prepares, o) ==
    [status |-> status, calls |-> calls, prepares |-> prepares, obj |-> o]

(***************************************************************************)
(* int div = HAL_RCC_GetHCLKFreq() / hz: the operands are converted to     *)
(* uint32_t.  A negative hz converts to a value of at least 2^31, above    *)
(* every HCLK, so the quotient is 0; a zero hz is undefined behaviour.     *)
(***************************************************************************)
HclkDiv(hclk, hz, div0) ==
    IF hz = 0 THEN div0.value
    ELSE IF hz < 0 THEN 0
    ELSE hclk \div hz

\* qspi_frequency with the upper limit of the divider off by one.
qspi_frequency_limit257(o, hz, env) ==
    IF hz = 0 /\ env.div0.trap
    THEN {Run("NO_RETURN", <<>>, 0, o)}
    ELSE LET div == HclkDiv(env.hclk, hz, env.div0) IN
         IF div > 257 \/ div < 1
         THEN {Run("QSPI_STATUS_INVALID_PARAMETER", <<>>, 0, o)}
         ELSE {Run(IF c.ret # "HAL_OK" THEN "QSPI_STATUS_ERROR" ELSE "QSPI_STATUS_OK",
                   <<c>>, 0, [o EXCEPT !.ClockPrescaler = div - 1]) :
                  c \in HAL("HAL_QSPI_Init", 0)}

\* qspi_frequency calling HAL_QSPI_Init before it checks the divider.
qspi_frequency_init_first(o, hz, env) ==
    IF hz = 0 /\ env.div0.trap
    THEN {Run("NO_RETURN", <<>>, 0, o)}
    ELSE LET div == HclkDiv(env.hclk, hz, env.div0) IN
         IF div > 256 \/ div < 1
         THEN {Run("QSPI_STATUS_INVALID_PARAMETER", <<c>>, 0, o) :
                  c \in HAL("HAL_QSPI_Init", 0)}
         ELSE {Run(IF c.ret # "HAL_OK" THEN "QSPI_STATUS_ERROR" ELSE "QSPI_STATUS_OK",
                   <<c>>, 0, [o EXCEPT !.ClockPrescaler = div - 1]) :
                  c \in HAL("HAL_QSPI_Init", 0)}

qspi_frequency(o, hz, env) ==
    IF hz = 0 /\ env.div0.trap
    THEN {Run("NO_RETURN", <<>>, 0, o)}
    ELSE LET div == HclkDiv(env.hclk, hz, env.div0) IN
         IF div > 256 \/ div < 1
         THEN {Run("QSPI_STATUS_INVALID_PARAMETER", <<>>, 0, o)}
         ELSE {Run(IF c.ret # "HAL_OK" THEN "QSPI_STATUS_ERROR" ELSE "QSPI_STATUS_OK",
                   <<c>>, 0, [o EXCEPT !.ClockPrescaler = div - 1]) :
                  c \in HAL("HAL_QSPI_Init", 0)}

(***************************************************************************)
(* qspi_init.  merged is what pinmap_merge gave for the three pin pairs.   *)
(* freq is what the qspi_frequency call returned, which the code drops     *)
(* ("NOT_CALLED" when qspi_init returned before it).                       *)
(***************************************************************************)
InitRun(status, calls, o, freq) ==
    [status |-> status, calls |-> calls, prepares |-> 0, obj |-> o, freq |-> freq]

qspi_init(o, merged, hz, mode, env) ==
    LET qspi_data_first  == merged[1]
        qspi_data_second == merged[2]
        qspi_data_third  == merged[3]
        o1 == [o EXCEPT !.ClockPrescaler = 1, !.ClockMode = "QSPI_CLOCK_MODE_0"]
        o2 == [o1 EXCEPT !.ClockMode = IF mode = 0 THEN "QSPI_CLOCK_MODE_0"
                                       ELSE "QSPI_CLOCK_MODE_3"]
        o3 == [o2 EXCEPT !.Instance = qspi_data_first]
    IN  IF \/ qspi_data_first # qspi_data_second
           \/ qspi_data_second # qspi_data_third
           \/ qspi_data_first # qspi_data_third
        THEN {InitRun("QSPI_STATUS_INVALID_PARAMETER", <<>>, o2, "NOT_CALLED")}
        ELSE UNION {
               IF c.ret # "HAL_OK"
               THEN {InitRun("QSPI_STATUS_ERROR", <<c>>, o3, "NOT_CALLED")}
               ELSE {InitRun(IF f.status = "NO_RETURN" THEN "NO_RETURN"
                             ELSE "QSPI_STATUS_OK",
                             <<c>> \o f.calls, f.obj, f.status) :
                        f \in qspi_frequency(o3, hz, env)}
               : c \in HAL("HAL_QSPI_Init", 0)}

qspi_free(o) == {Run("QSPI_STATUS_ERROR", <<>>, 0, o)}

(***************************************************************************)
(* qspi_write and qspi_read.  len is *length on entry; length is *length   *)
(* on return, which no statement of either function assigns.  The          *)
(* st_command local starts from a stack content that only the vendor call  *)
(* could observe.                                                          *)
(***************************************************************************)
TransferRun(status, calls, o, len) ==
    [status |-> status, calls |-> calls, prepares |-> 1, obj |-> o, length |-> len]

\* qspi_write without the return after a failed HAL_QSPI_Command.
qspi_write_no_early_return(o, cmd, len) ==
    LET st == [qspi_prepare_command(cmd, UninitCommand(0)) EXCEPT !.NbData = len]
    IN  {TransferRun(IF c1.ret # "HAL_OK" \/ c2.ret # "HAL_OK"
                     THEN "QSPI_STATUS_ERROR" ELSE "QSPI_STATUS_OK",
                     <<c1, c2>>, o, len) :
            c1 \in HAL("HAL_QSPI_Command", st.NbData),
            c2 \in HAL("HAL_QSPI_Transmit", st.NbData)}

qspi_write(o, cmd, len) ==
    LET st == [qspi_prepare_command(cmd, UninitCommand(0)) EXCEPT !.NbData = len]
    IN  UNION {
          IF c1.ret # "HAL_OK"
          THEN {TransferRun("QSPI_STATUS_ERROR", <<c1>>, o, len)}
          ELSE {TransferRun(IF c2.ret # "HAL_OK" THEN "QSPI_STATUS_ERROR"
                            ELSE "QSPI_STATUS_OK", <<c1, c2>>, o, len) :
                   c2 \in HAL("HAL_QSPI_Transmit", st.NbData)}
          : c1 \in HAL("HAL_QSPI_Command", st.NbData)}

\* qspi_read testing HAL_QSPI_Receive for HAL_ERROR alone, not for != HAL_OK.
qspi_read_only_hal_error(o, cmd, len) ==
    LET st == [qspi_prepare_command(cmd, UninitCommand(0)) EXCEPT !.NbData = len]
    IN  UNION {
          IF c1.ret # "HAL_OK"
          THEN {TransferRun("QSPI_STATUS_ERROR", <<c1>>, o, len)}
          ELSE {TransferRun(IF c2.ret = "HAL_ERROR" THEN "QSPI_STATUS_ERROR"
                            ELSE "QSPI_STATUS_OK", <<c1, c2>>, o, len) :
                   c2 \in HAL("HAL_QSPI_Receive", st.NbData)}
          : c1 \in HAL("HAL_QSPI_Command", st.NbData)}

qspi_read(o, cmd, len) ==
    LET st == [qspi_prepare_command(cmd, UninitCommand(0)) EXCEPT !.NbData = len]
    IN  UNION {
          IF c1.ret # "HAL_OK"
          THEN {TransferRun("QSPI_STATUS_ERROR", <<c1>>, o, len)}
          ELSE {TransferRun(IF c2.ret # "HAL_OK" THEN "QSPI_STATUS_ERROR"
                            ELSE "QSPI_STATUS_OK", <<c1, c2>>, o, len) :
                   c2 \in HAL("HAL_QSPI_Receive", st.NbData)}
          : c1 \in HAL("HAL_QSPI_Command", st.NbData)}

(***************************************************************************)
(* qspi_command_transfer: a command alone, or a write phase, a read phase  *)
(* or both, each through qspi_write and qspi_read.                         *)
(***************************************************************************)
qspi_command_transfer(o, cmd, tx_data, tx_size, rx_data, rx_size) ==
    IF (tx_data = "NULL" \/ tx_size = 0) /\ (rx_data = "NULL" \/ rx_size = 0)
    THEN LET st == [qspi_prepare_command(cmd, UninitCommand(0))
                        EXCEPT !.NbData = 1, !.DataMode = QSPI_DATA_NONE]
         IN  {Run(IF c.ret # "HAL_OK" THEN "QSPI_STATUS_ERROR" ELSE "QSPI_STATUS_OK",
                  <<c>>, 1, o) :
                 c \in HAL("HAL_QSPI_Command", st.NbData)}
    ELSE LET skipped == Run("QSPI_STATUS_OK", <<>>, 0, o)
             writes  == IF tx_data # "NULL" /\ tx_size # 0
                        THEN qspi_write(o, cmd, tx_size)
                        ELSE {skipped}
             reads   == IF rx_data # "NULL" /\ rx_size # 0
                        THEN qspi_read(o, cmd, rx_size)
                        ELSE {skipped}
         IN  UNION {
               IF w.status # "QSPI_STATUS_OK"
               THEN {Run(w.status, w.calls, w.prepares, o)}
               ELSE {Run(r.status, w.calls \o r.calls, w.prepares + r.prepares, o) :
                        r \in reads}
               : w \in writes}

(***************************************************************************)
(* Spec: the HAL entry points, called in any order on one qspi_t with any  *)
(* arguments and any environment.  Each action is one whole invocation.    *)
(***************************************************************************)
Init ==
    /\ obj = [ClockPrescaler |-> 0, ClockMode |-> "QSPI_CLOCK_MODE_0",
              Instance |-> "NC"]
    /\ call = [op |-> "none"]
    /\ result = [status |-> "NONE", calls |-> <<>>, prepares |-> 0]
    /\ PrepIdle
    /\ LockIdle

Returned(r) ==
    /\ result' = r
    /\ obj' = r.obj
    /\ UNCHANGED <<prepVars, lockVars>>

QspiInit ==
    \E merged \in PinMerges, mode \in {0, 1}, hz \in {h \in HzValues : h >= 0} :
        \E env \in Envs(hz) :
            \E r \in qspi_init(obj, merged, hz, mode, env) :
                /\ call' = [op |-> "qspi_init", hz |-> hz, hclk |-> env.hclk]
                /\ Returned(r)

QspiFree ==
    \E r \in qspi_free(obj) :
        /\ call' = [op |-> "qspi_free"]
        /\ Returned(r)

QspiFrequency ==
    \E hz \in HzValues :
        \E env \in Envs(hz) :
            \E r \in qspi_frequency(obj, hz, env) :
                /\ call' = [op |-> "qspi_frequency", hz |-> hz,
                            hclk |-> env.hclk, pre |-> obj]
                /\ Returned(r)

QspiWrite ==
    \E cmd \in SampleCommands, len \in Lengths :
        \E r \in qspi_write(obj, cmd, len) :
            /\ call' = [op |-> "qspi_write", command |-> cmd, length |-> len]
            /\ Returned(r)

QspiRead ==
    \E cmd \in SampleCommands, len \in Lengths :
        \E r \in qspi_read(obj, cmd, len) :
            /\ call' = [op |-> "qspi_read", command |-> cmd, length |-> len]
            /\ Returned(r)

QspiCommandTransfer ==
    \E cmd \in SampleCommands, tx_data, rx_data \in Buffers,
       tx_size, rx_size \in Lengths :
        \E r \in qspi_command_transfer(obj, cmd, tx_data, tx_size, rx_data, rx_size) :
            /\ call' = [op |-> "qspi_command_transfer", command |-> cmd,
                        tx_data |-> tx_data, tx_size |-> tx_size,
                        rx_data |-> rx_data, rx_size |-> rx_size]
            /\ Returned(r)

Next ==
    \/ QspiInit
    \/ QspiFree
    \/ QspiFrequency
    \/ QspiWrite
    \/ QspiRead
    \/ QspiCommandTransfer

Spec == Init /\ [][Next]_vars

(***************************************************************************)
(* SpecLock: the bus exclusion of the QSPI class.  Every transaction       *)
(* method (read, write, command_transfer, set_frequency,                  *)
(* configure_format) runs lock(); _acquire(); <HAL call>; unlock(), and    *)
(* lock() and unlock() are public as well.  _mutex is one recursive mutex  *)
(* shared by all instances; _acquire checks the owner pointer and sets it  *)
(* to this.  A thread blocks in lock() until the mutex is free, so a       *)
(* transaction is four steps, not one.                                     *)
(***************************************************************************)
Threads == 1..NumThreads
Instances == 1..NumInstances

\* PlatformMutex::lock returning at once, whoever holds the mutex.
MutexFreeAlways(t) == TRUE

\* PlatformMutex::lock returns for thread t when no other thread holds it.
MutexFree(t) == \A u \in Threads \ {t} : mutex[u] = 0

InitLock ==
    /\ mutex = [t \in Threads |-> 0]
    /\ _owner = 0
    /\ pc = [t \in Threads |-> "idle"]
    /\ self_ = [t \in Threads |-> 0]
    /\ touched = {}
    /\ PrepIdle
    /\ HalIdle

\* QSPI::lock(), called by the application.
lock(t) ==
    /\ pc[t] = "idle"
    /\ mutex[t] < MaxLockDepth
    /\ MutexFree(t)
    /\ mutex' = [mutex EXCEPT ![t] = @ + 1]
    /\ UNCHANGED <<_owner, pc, self_, touched, prepVars, halVars>>

\* QSPI::unlock(), called by the application: a release by a thread that
\* does not hold the mutex fails and changes nothing.
unlock(t) ==
    /\ pc[t] = "idle"
    /\ mutex' = [mutex EXCEPT ![t] = IF @ > 0 THEN @ - 1 ELSE @]
    /\ UNCHANGED <<_owner, pc, self_, touched, prepVars, halVars>>

\* A transaction method of instance i entered by thread t: its lock().
Enter(t, i) ==
    /\ pc[t] = "idle"
    /\ mutex[t] < MaxLockDepth
    /\ MutexFree(t)
    /\ mutex' = [mutex EXCEPT ![t] = @ + 1]
    /\ pc' = [pc EXCEPT ![t] = "locked"]
    /\ self_' = [self_ EXCEPT ![t] = i]
    /\ UNCHANGED <<_owner, touched, prepVars, halVars>>

\* QSPI::_acquire(): if (_owner != this) { set the bus up; _owner = this; }
_acquire(t) ==
    /\ pc[t] = "locked"
    /\ touched' = IF mutex[t] = 0 THEN touched \cup {t} ELSE touched
    /\ _owner' = IF _owner # self_[t] THEN self_[t] ELSE _owner
    /\ pc' = [pc EXCEPT ![t] = "acquired"]
    /\ UNCHANGED <<mutex, self_, prepVars, halVars>>

\* The HAL call of the transaction: the bus carries instance self_[t]'s data.
Transfer(t) ==
    /\ pc[t] = "acquired"
    /\ pc' = [pc EXCEPT ![t] = "transferred"]
    /\ UNCHANGED <<mutex, _owner, self_, touched, prepVars, halVars>>

\* The unlock() that ends the transaction method.
Leave(t) ==
    /\ pc[t] = "transferred"
    /\ mutex' = [mutex EXCEPT ![t] = IF @ > 0 THEN @ - 1 ELSE @]
    /\ pc' = [pc EXCEPT ![t] = "idle"]
    /\ self_' = [self_ EXCEPT ![t] = 0]
    /\ UNCHANGED <<_owner, touched, prepVars, halVars>>

NextLock ==
    \E t \in Threads :
        \/ lock(t)
        \/ unlock(t)
        \/ \E i \in Instances : Enter(t, i)
        \/ _acquire(t)
        \/ Transfer(t)
        \/ Leave(t)

SpecLock == InitLock /\ [][NextLock]_vars

(***************************************************************************)
(*                              The claims                                 *)
(***************************************************************************)
ReadWrite == {"qspi_read", "qspi_write"}
DataCallOf(op) == IF op = "qspi_read" THEN "HAL_QSPI_Receive" ELSE "HAL_QSPI_Transmit"
DataCalls == {"HAL_QSPI_Transmit", "HAL_QSPI_Receive"}
NumCalls == Len(result.calls)

\* The command call and the data call of a read or write were both made and
\* both returned HAL_OK.
BothCallsOk ==
    /\ NumCalls = 2
    /\ result.calls[1].fn = "HAL_QSPI_Command"
    /\ result.calls[1].ret = "HAL_OK"
    /\ result.calls[2].fn = DataCallOf(call.op)
    /\ result.calls[2].ret = "HAL_OK"

\* C1: qspi_read and qspi_write return QSPI_STATUS_OK exactly when
\* HAL_QSPI_Command and the data call that follows it both return HAL_OK,
\* and QSPI_STATUS_ERROR in every other case (so never
\* QSPI_STATUS_INVALID_PARAMETER).
C1_ReadWriteStatus ==
    call.op \in ReadWrite =>
        result.status = IF BothCallsOk THEN "QSPI_STATUS_OK" ELSE "QSPI_STATUS_ERROR"

\* A read whose command went through and whose HAL_QSPI_Receive timed out.
C1_Witness ==
    /\ call.op = "qspi_read"
    /\ NumCalls = 2
    /\ result.calls[1].ret = "HAL_OK"
    /\ result.calls[2].ret = "HAL_TIMEOUT"
    /\ result.status = "QSPI_STATUS_ERROR"

\* C2: when qspi_read or qspi_write returns, *length holds the number of
\* bytes transferred: the requested count after a successful transfer, and 0
\* when HAL_QSPI_Command failed and no data phase ran.
C2_LengthUpdated ==
    (call.op \in ReadWrite /\ NumCalls > 0) =>
        /\ result.status = "QSPI_STATUS_OK" => result.length = call.length
        /\ result.calls[1].ret # "HAL_OK" => result.length = 0

\* C3: in qspi_write, qspi_read and qspi_command_transfer a vendor call that
\* does not return HAL_OK is the last one made and the status returned is not
\* QSPI_STATUS_OK; a data call directly follows a HAL_QSPI_Command that
\* returned HAL_OK.
C3_FailFast ==
    call.op \in ReadWrite \cup {"qspi_command_transfer"} =>
        /\ \A i \in 1..NumCalls :
              result.calls[i].ret # "HAL_OK" =>
                  /\ i = NumCalls
                  /\ result.status # "QSPI_STATUS_OK"
        /\ \A i \in 1..NumCalls :
              result.calls[i].fn \in DataCalls =>
                  /\ i > 1
                  /\ result.calls[i - 1].fn = "HAL_QSPI_Command"
                  /\ result.calls[i - 1].ret = "HAL_OK"

\* A command transfer with data to send and data to receive whose
\* HAL_QSPI_Transmit failed: the read phase was not started.
C3_Witness ==
    /\ call.op = "qspi_command_transfer"
    /\ call.tx_data # "NULL" /\ call.tx_size > 0
    /\ call.rx_data # "NULL" /\ call.rx_size > 0
    /\ NumCalls = 2
    /\ result.calls[2].fn = "HAL_QSPI_Transmit"
    /\ result.calls[2].ret # "HAL_OK"
    /\ result.status = "QSPI_STATUS_ERROR"

\* C4 as stated: every invocation of qspi_read, qspi_write,
\* qspi_command_transfer and qspi_frequency issues one or two vendor calls
\* and converts the command descriptor exactly once.
C4_OneOrTwoCalls ==
    call.op \in ReadWrite \cup {"qspi_command_transfer", "qspi_frequency"} =>
        /\ NumCalls \in 1..2
        /\ result.prepares = 1

BothPhases ==
    /\ call.tx_data # "NULL" /\ call.tx_size # 0
    /\ call.rx_data # "NULL" /\ call.rx_size # 0

\* C4 as amended: qspi_read and qspi_write issue one or two vendor calls and
\* convert the command once.  qspi_command_transfer does the same, except
\* when a write and a read phase are both requested and the write phase
\* succeeds: then it issues three or four vendor calls and converts the
\* command twice.  qspi_frequency converts no command and issues one vendor
\* call, HAL_QSPI_Init, or none when it rejects the divider (or the division
\* by a zero hz traps).
C4_CallCounts ==
    /\ call.op \in ReadWrite =>
          NumCalls \in 1..2 /\ result.prepares = 1
    /\ call.op = "qspi_command_transfer" =>
          IF BothPhases /\ NumCalls > 2
          THEN /\ NumCalls \in 3..4
               /\ result.prepares = 2
               /\ result.calls[2].fn = "HAL_QSPI_Transmit"
               /\ result.calls[2].ret = "HAL_OK"
          ELSE /\ NumCalls \in 1..2
               /\ result.prepares = 1
               /\ BothPhases => result.calls[NumCalls].ret # "HAL_OK"
    /\ call.op = "qspi_frequency" =>
          /\ result.prepares = 0
          /\ \A i \in 1..NumCalls : result.calls[i].fn = "HAL_QSPI_Init"
          /\ NumCalls = IF result.status \in {"QSPI_STATUS_INVALID_PARAMETER",
                                              "NO_RETURN"}
                        THEN 0 ELSE 1

\* A command transfer that ran both phases to the end: four vendor calls and
\* two conversions.
C4_Witness ==
    /\ call.op = "qspi_command_transfer"
    /\ NumCalls = 4
    /\ result.prepares = 2
    /\ result.status = "QSPI_STATUS_OK"

\* C9: qspi_init returns QSPI_STATUS_OK only when every step succeeded: not
\* when its qspi_frequency call returned QSPI_STATUS_INVALID_PARAMETER or
\* QSPI_STATUS_ERROR.  Stated for a nonzero hz, where the division in
\* qspi_frequency is defined.
C9_InitReportsFrequencyFailure ==
    (/\ call.op = "qspi_init"
     /\ call.hz # 0
     /\ result.freq \in {"QSPI_STATUS_INVALID_PARAMETER", "QSPI_STATUS_ERROR"})
        => result.status # "QSPI_STATUS_OK"

\* HCLK / hz as the claim reads it: the quotient, rounded towards zero.
Quotient(a, b) ==
    IF b > 0 THEN a \div b ELSE -(a \div (-b))

\* C10: for a nonzero hz and div = HCLK / hz, qspi_frequency returns
\* QSPI_STATUS_INVALID_PARAMETER exactly when div < 1 or div > 256, and then
\* leaves ClockPrescaler as it was and does not call HAL_QSPI_Init;
\* otherwise it sets ClockPrescaler to div - 1, a value in 0..255, calls
\* HAL_QSPI_Init once and returns QSPI_STATUS_OK or QSPI_STATUS_ERROR
\* according to that call.
C10_FrequencyDivider ==
    (call.op = "qspi_frequency" /\ call.hz # 0) =>
        LET div == Quotient(call.hclk, call.hz) IN
        /\ result.status = "QSPI_STATUS_INVALID_PARAMETER" <=> (div < 1 \/ div > 256)
        /\ result.status = "QSPI_STATUS_INVALID_PARAMETER" =>
              /\ obj = call.pre
              /\ NumCalls = 0
        /\ result.status # "QSPI_STATUS_INVALID_PARAMETER" =>
              /\ obj.ClockPrescaler = div - 1
              /\ obj.ClockPrescaler \in 0..255
              /\ NumCalls = 1
              /\ result.calls[1].fn = "HAL_QSPI_Init"
              /\ result.status = IF result.calls[1].ret = "HAL_OK"
                                 THEN "QSPI_STATUS_OK" ELSE "QSPI_STATUS_ERROR"

\* A divider of 257 rejected after an earlier call had set the largest
\* prescaler, 255, which is still in place.
C10_Witness ==
    /\ call.op = "qspi_frequency"
    /\ call.hz = 1 /\ call.hclk = 257
    /\ result.status = "QSPI_STATUS_INVALID_PARAMETER"
    /\ call.pre.ClockPrescaler = 255
    /\ obj.ClockPrescaler = 255

\* The number of lines a bus width selects (0: the phase's NONE mode).
Lines(bus_width) ==
    CASE bus_width = "QSPI_CFG_BUS_SINGLE" -> 1
      [] bus_width = "QSPI_CFG_BUS_DUAL"   -> 2
      [] bus_width = "QSPI_CFG_BUS_QUAD"   -> 4
      [] OTHER                             -> 0

\* C6: a disabled address gives AddressMode = QSPI_ADDRESS_NONE and
\* AddressSize = 0 whatever its bus width, size and value are, and leaves
\* Address as the caller's st_command held it; a disabled alt does the same
\* to AlternateByteMode, AlternateBytesSize and AlternateBytes.
C6_DisabledPhase ==
    prepared =>
        /\ command.address.disabled =>
              /\ st_command.AddressMode = QSPI_ADDRESS_NONE
              /\ st_command.AddressSize = 0
              /\ st_command.Address = junk
        /\ command.alt.disabled =>
              /\ st_command.AlternateByteMode = QSPI_ALTERNATE_BYTES_NONE
              /\ st_command.AlternateBytesSize = 0
              /\ st_command.AlternateBytes = junk

\* A command with both phases disabled whose widths, sizes and values would
\* otherwise all show in st_command.
C6_Witness ==
    /\ prepared
    /\ junk = 43690
    /\ command.address = [bus_width |-> "QSPI_CFG_BUS_QUAD", disabled |-> TRUE,
                          size |-> 3, value |-> 171]
    /\ command.alt = [bus_width |-> "QSPI_CFG_BUS_DUAL", disabled |-> TRUE,
                      size |-> 1, value |-> 171]

\* C7: each phase's mode is the vendor mode of that phase with the line
\* count of that phase's own bus width (single 1, dual 2, quad 4, anything
\* else NONE): the instruction and the data phase always, the address and
\* the alternate-byte phase when enabled.
C7_BusWidthMapping ==
    prepared =>
        /\ st_command.InstructionMode =
              Mode("INSTRUCTION", Lines(command.instruction.bus_width))
        /\ ~command.address.disabled =>
              st_command.AddressMode = Mode("ADDRESS", Lines(command.address.bus_width))
        /\ ~command.alt.disabled =>
              st_command.AlternateByteMode =
                  Mode("ALTERNATE_BYTES", Lines(command.alt.bus_width))
        /\ st_command.DataMode = Mode("DATA", Lines(command.data.bus_width))

\* A command whose four phases are enabled with four different bus widths.
C7_Witness ==
    /\ prepared
    /\ command.instruction.bus_width = "QSPI_CFG_BUS_SINGLE"
    /\ command.address.bus_width = "QSPI_CFG_BUS_DUAL"
    /\ ~command.address.disabled
    /\ command.alt.bus_width = "QSPI_CFG_BUS_QUAD"
    /\ ~command.alt.disabled
    /\ command.data.bus_width = "QSPI_CFG_BUS_OTHER"
    /\ st_command.AddressMode = QSPI_ADDRESS_2_LINES
    /\ st_command.DataMode = QSPI_DATA_NONE

\* C8: an enabled alt phase sets AlternateBytesSize to the size shifted into
\* its register field, as an enabled address phase does for AddressSize.
C8_AltSizeShifted ==
    prepared =>
        /\ ~command.address.disabled =>
              st_command.AddressSize =
                  BitAnd(Shl(command.address.size, QUADSPI_CCR_ADSIZE_Pos),
                         QUADSPI_CCR_ADSIZE_Msk)
        /\ ~command.alt.disabled =>
              st_command.AlternateBytesSize =
                  BitAnd(Shl(command.alt.size, QUADSPI_CCR_ABSIZE_Pos),
                         QUADSPI_CCR_ABSIZE_Msk)

InTransaction(t) == pc[t] \in {"locked", "acquired", "transferred"}

\* C5: at most one thread holds the global mutex; the owner pointer names at
\* most one instance and is accessed only by a thread holding the mutex; two
\* threads are never inside a transaction at once, and the bus is set up for
\* the instance whose transaction is running.
C5_BusExclusion ==
    /\ Cardinality({t \in Threads : mutex[t] > 0}) <= 1
    /\ _owner \in {0} \cup Instances
    /\ touched = {}
    /\ \A t, u \in Threads : (InTransaction(t) /\ InTransaction(u)) => t = u
    /\ \A t \in Threads :
          pc[t] \in {"acquired", "transferred"} => _owner = self_[t]

\* Thread 2, which already held the mutex through lock(), has made the HAL
\* call of a transaction of instance 2, the owner, while thread 1 is idle.
C5_Witness ==
    /\ pc[2] = "transferred"
    /\ self_[2] = 2
    /\ _owner = 2
    /\ mutex[2] = 2
    /\ pc[1] = "idle"

====
